---- MODULE Spec2Model ----
(***************************************************************************)
(* Reminder scheduler of the calendar page (src/src/app/page.tsx) together *)
(* with the event store it reads (src/src/lib/events.ts).                  *)
(*                                                                         *)
(* Time is counted in whole minutes since 1970-01-01 00:00 local time; the *)
(* delay handed to setTimeout is kept in milliseconds.  An optional field  *)
(* (startTime, reminderMinutes) is a sequence: <<>> when it is undefined,  *)
(* <<v>> or <<h, m>> when it is set.  A date "yyyy-MM-dd" is <<y, m, d>>.  *)
(* An event id (a UUID string in the code) is a number of 1..MaxEvents.    *)
(***************************************************************************)
EXTENDS Integers, Sequences, FiniteSets, TLC

VARIABLES
    storedEvents,           \* localStorage["chronozen_events"]: the JSON array
    usedIds,                \* ids crypto.randomUUID() has handed out
    notificationPermission, \* module variable of page.tsx
    browserPermission,      \* Notification.permission, owned by the browser
    pendingPermission,      \* saves suspended at `await requestNotificationPermission()`
    scheduledNotifications, \* Map eventId -> timeoutId
    timers,                 \* the browser's armed one-shot timers
    nextTimeoutId,          \* the browser's next setTimeout handle
    now,                    \* the clock, minutes since the epoch
    notifications,          \* notifications shown so far, in order
    cleared,                \* timers stopped by clearTimeout
    lastCall,               \* history: the last operation, its argument and the
                            \* timers that were armed for its id when it began
    blockedToasts,          \* "Notifications Blocked" toasts shown so far
    storedTodos,            \* localStorage["chronozen_todos"]: the JSON array
    lastStore,              \* history: the last store call, its outcome and
                            \* the collection that was durable when it began
    lastView                \* history: the last call of a view's function
                            \* (getEventPosition, getEventsForWeek), its
                            \* arguments and what it returned

vars == <<storedEvents, usedIds, notificationPermission, browserPermission,
          pendingPermission, scheduledNotifications, timers, nextTimeoutId,
          now, notifications, cleared, lastCall, blockedToasts, storedTodos,
          lastStore, lastView>>

----------------------------------------------------------------------------
(* Bounds of the model *)

MaxEvents == 2
MaxTimeouts == 2
MaxTicks == 3
MaxPending == 1
MaxToasts == 2

----------------------------------------------------------------------------
(* date-fns parse(`${date} ${startTime}`, 'yyyy-MM-dd HH:mm', new Date()) *)

IsLeapYear(y) == (y % 4 = 0 /\ y % 100 # 0) \/ y % 400 = 0

DaysInMonth(y, m) ==
    IF m = 2 THEN (IF IsLeapYear(y) THEN 29 ELSE 28)
    ELSE IF m \in {4, 6, 9, 11} THEN 30 ELSE 31

RECURSIVE DaysBeforeMonth(_, _)
DaysBeforeMonth(y, m) ==
    IF m <= 1 THEN 0 ELSE DaysBeforeMonth(y, m - 1) + DaysInMonth(y, m - 1)

LeapDaysBefore(y) == ((y - 1) \div 4) - ((y - 1) \div 100) + ((y - 1) \div 400)

DaysSinceEpoch(date) ==
    365 * (date[1] - 1970) + (LeapDaysBefore(date[1]) - LeapDaysBefore(1970))
    + DaysBeforeMonth(date[1], date[2]) + (date[3] - 1)

ValidDate(date) ==
    /\ date[2] \in 1..12
    /\ date[3] \in 1..DaysInMonth(date[1], date[2])

ValidTime(time) ==
    /\ Len(time) = 2
    /\ time[1] \in 0..23
    /\ time[2] \in 0..59

\* <<>> is the Invalid Date (getTime() is NaN); <<t>> is an instant
Parse(date, time) ==
    IF ValidDate(date) /\ ValidTime(time)
    THEN <<(DaysSinceEpoch(date) * 24 + time[1]) * 60 + time[2]>>
    ELSE <<>>

\* subMinutes(eventDateTime, event.reminderMinutes)
SubMinutes(instant, minutes) == instant - minutes

\* JavaScript truthiness of event.reminderMinutes / event.startTime
Truthy(opt) == opt # <<>> /\ opt # <<0>>

\* the guard of page.tsx line 61 and line 228
HasReminder(event) ==
    Truthy(event.reminderMinutes) /\ event.startTime # <<>> /\ ~event.allDay

\* the trigger instant of an event that HasReminder and parses
NotificationTime(event) ==
    SubMinutes(Parse(event.date, event.startTime)[1], event.reminderMinutes[1])

----------------------------------------------------------------------------
(* The registry and the browser's timers, as one value the two scheduler   *)
(* functions transform.                                                     *)

Sched ==
    [reg |-> scheduledNotifications, timers |-> timers,
     next |-> nextTimeoutId, cleared |-> cleared]

SetSched(s) ==
    /\ scheduledNotifications' = s.reg
    /\ timers' = s.timers
    /\ nextTimeoutId' = s.next
    /\ cleared' = s.cleared

Remove(f, k) == [x \in DOMAIN f \ {k} |-> f[x]]

\* clearTimeout(timeoutId): stops the timer with that handle, if it is armed
ClearTimeout(s, timeoutId) ==
    [s EXCEPT !.timers = {t \in s.timers : t.handle # timeoutId},
              !.cleared = s.cleared \cup {t.handle : t \in {u \in s.timers : u.handle = timeoutId}}]

\* mutants of cancelNotification
CancelForgetsTimer(s, eventId) ==
    IF eventId \in DOMAIN s.reg /\ s.reg[eventId] # 0
    THEN [s EXCEPT !.reg = Remove(s.reg, eventId)]
    ELSE s

CancelClearsAll(s, eventId) ==
    IF eventId \in DOMAIN s.reg /\ s.reg[eventId] # 0
    THEN [ClearTimeout(s, s.reg[eventId]) EXCEPT !.reg = Remove(s.reg, eventId)]
    ELSE [s EXCEPT !.reg = <<>>]

\* cancelNotification(eventId)
CancelNotification(s, eventId) ==
    IF eventId \in DOMAIN s.reg /\ s.reg[eventId] # 0
    THEN [ClearTimeout(s, s.reg[eventId]) EXCEPT !.reg = Remove(s.reg, eventId)]
    ELSE s

\* window.setTimeout(callback, delay) followed by scheduledNotifications.set
Arm(s, event, at, delay) ==
    [s EXCEPT !.timers = s.timers \cup
                  {[handle |-> s.next, event |-> event, at |-> at, delay |-> delay]},
              !.reg = (event.id :> s.next) @@ Remove(s.reg, event.id),
              !.next = s.next + 1]

\* mutants of scheduleNotification
ScheduleNoCancel(s, event, permission, clock) ==
    IF ~HasReminder(event) THEN s
    ELSE IF permission # "granted" THEN s
    ELSE IF Parse(event.date, event.startTime) = <<>> THEN s
    ELSE IF NotificationTime(event) <= clock THEN s
    ELSE Arm(s, event, NotificationTime(event),
             (NotificationTime(event) - clock) * 60000)

ScheduleArmsPast(s, event, permission, clock) ==
    IF ~HasReminder(event) THEN s
    ELSE IF permission # "granted" THEN s
    ELSE IF Parse(event.date, event.startTime) = <<>> THEN s
    ELSE IF NotificationTime(event) < clock THEN s
    ELSE Arm(CancelNotification(s, event.id), event, NotificationTime(event),
             (NotificationTime(event) - clock) * 60000)

ScheduleCancelAfterArm(s, event, permission, clock) ==
    IF ~HasReminder(event) THEN s
    ELSE IF permission # "granted" THEN s
    ELSE IF Parse(event.date, event.startTime) = <<>> THEN s
    ELSE IF NotificationTime(event) <= clock THEN s
    ELSE CancelNotification(Arm(s, event, NotificationTime(event),
                                (NotificationTime(event) - clock) * 60000),
                            event.id)

ScheduleDelayFromStart(s, event, permission, clock) ==
    IF ~HasReminder(event) THEN s
    ELSE IF permission # "granted" THEN s
    ELSE IF Parse(event.date, event.startTime) = <<>> THEN s
    ELSE IF NotificationTime(event) <= clock THEN s
    ELSE Arm(CancelNotification(s, event.id), event, NotificationTime(event),
             (Parse(event.date, event.startTime)[1] - clock) * 60000)

ScheduleIgnoresPermission(s, event, permission, clock) ==
    IF ~HasReminder(event) THEN s
    ELSE IF Parse(event.date, event.startTime) = <<>> THEN s
    ELSE IF NotificationTime(event) <= clock THEN s
    ELSE Arm(CancelNotification(s, event.id), event, NotificationTime(event),
             (NotificationTime(event) - clock) * 60000)

\* scheduleNotification(event), run with the permission and the clock given
ScheduleNotification(s, event, permission, clock) ==
    IF ~HasReminder(event) THEN s
    ELSE IF permission # "granted" THEN s
    ELSE IF Parse(event.date, event.startTime) = <<>> THEN s
    ELSE IF NotificationTime(event) <= clock THEN s
    ELSE Arm(CancelNotification(s, event.id), event, NotificationTime(event),
             (NotificationTime(event) - clock) * 60000)

\* the model follows a call only while the browser's handles stay in range
InRange(s) == s.next <= MaxTimeouts + 1

\* (variant) the loop stops one event short of the end of the list
RECURSIVE ScheduleAllButLast(_, _, _, _)
ScheduleAllButLast(s, events, permission, clock) ==
    IF Len(events) <= 1 THEN s
    ELSE ScheduleAllButLast(ScheduleNotification(s, Head(events), permission, clock),
                            Tail(events), permission, clock)

\* (variant) an event that does not parse throws out of the loop
RECURSIVE ScheduleAllUntilInvalid(_, _, _, _)
ScheduleAllUntilInvalid(s, events, permission, clock) ==
    IF events = <<>> THEN s
    ELSE IF HasReminder(Head(events))
            /\ Parse(Head(events).date, Head(events).startTime) = <<>>
    THEN s
    ELSE ScheduleAllUntilInvalid(
             ScheduleNotification(s, Head(events), permission, clock),
             Tail(events), permission, clock)

\* getEvents().forEach(event => scheduleNotification(event))
RECURSIVE ScheduleAll(_, _, _, _)
ScheduleAll(s, events, permission, clock) ==
    IF events = <<>> THEN s
    ELSE ScheduleAll(ScheduleNotification(s, Head(events), permission, clock),
                     Tail(events), permission, clock)

----------------------------------------------------------------------------
(* The event store *)

StoredIds == {storedEvents[i].id : i \in DOMAIN storedEvents}

StoredEvent(id) ==
    storedEvents[CHOOSE i \in DOMAIN storedEvents : storedEvents[i].id = id]

\* (variant) the id the input carries is kept
AddEventKeepsInputId(events, newEvent, id) == Append(events, newEvent)

\* addEvent: append the event under a fresh id
AddEvent(events, newEvent, id) == Append(events, [newEvent EXCEPT !.id = id])

\* updateEvent: replace the record at the index of the id
UpdateEvent(events, updatedEvent) ==
    [i \in DOMAIN events |->
        IF i = (CHOOSE j \in DOMAIN events : events[j].id = updatedEvent.id)
        THEN updatedEvent ELSE events[i]]

\* deleteEvent: events.filter(event => event.id !== eventId)
DeleteEvent(events, eventId) ==
    SelectSeq(events, LAMBDA e : e.id # eventId)

----------------------------------------------------------------------------
(* What the event form can submit (event-form.tsx onSubmit): an all-day    *)
(* event carries no startTime, any other event carries a valid HH:mm.      *)

Event(id, date, startTime, allDay, reminderMinutes) ==
    [id |-> id, date |-> date, startTime |-> startTime, allDay |-> allDay,
     reminderMinutes |-> reminderMinutes]

FormEvents(id) ==
    {Event(id, <<2024, 6, 1>>, <<14, 0>>, FALSE, <<15>>),
     Event(id, <<2024, 6, 1>>, <<15, 0>>, FALSE, <<15>>),
     Event(id, <<2024, 6, 1>>, <<15, 0>>, FALSE, <<>>),
     Event(id, <<2024, 6, 1>>, <<>>, TRUE, <<15>>)}

\* what a direct caller of scheduleNotification can pass: the above, and
\* events with a date that does not exist or without a startTime
AnyEvents(id) ==
    FormEvents(id) \cup
    {Event(id, <<2024, 6, 31>>, <<15, 0>>, FALSE, <<15>>),
     Event(id, <<2024, 6, 1>>, <<>>, FALSE, <<15>>)}

\* the clock starts at 2024-06-01 13:00 and is read at 45-minute steps
StartClock == Parse(<<2024, 6, 1>>, <<13, 0>>)[1]

ClockPoints == {StartClock + 45 * k : k \in 0..MaxTicks}

TimersOf(id) == {t \in timers : t.event.id = id}

Call(op, id, ev) == [op |-> op, id |-> id, ev |-> ev, old |-> TimersOf(id)]

\* the record kept of a store call: the collection it worked on, the id it
\* was given or handed out, what it returned (<<r>> for an entity, <<>> for
\* null; ok for the boolean of delete), the collection durable before it, and
\* whether the medium let it read and write
StoreCall(op, coll, id, ret, ok, before, readOk, writeOk) ==
    [op |-> op, coll |-> coll, id |-> id, ret |-> ret, ok |-> ok,
     before |-> before, readOk |-> readOk, writeOk |-> writeOk]

NoStoreCall == StoreCall("init", "none", 0, <<>>, FALSE, <<>>, TRUE, TRUE)

\* no view function called yet
NoView == [op |-> "init"]

----------------------------------------------------------------------------
Init ==
    /\ storedEvents = <<>>
    /\ usedIds = {}
    /\ browserPermission \in {"default", "granted", "denied"}
    /\ notificationPermission = browserPermission
    /\ pendingPermission = <<>>
    /\ scheduledNotifications = <<>>
    /\ timers = {}
    /\ nextTimeoutId = 1
    /\ now = StartClock
    /\ notifications = <<>>
    /\ cleared = {}
    /\ lastCall = [op |-> "init", id |-> 0, ev |-> <<>>, old |-> {}]
    /\ blockedToasts = 0
    /\ storedTodos = <<>>
    /\ lastStore = NoStoreCall
    /\ lastView = NoView

\* (variant) only the granted state is answered without a prompt
RequestPromptsUnlessGranted(permission) ==
    IF permission = "granted" THEN "true" ELSE "prompt"

\* requestNotificationPermission up to its first await (lines 36-45): what
\* the call does in each permission state
RequestNotificationPermission(permission) ==
    IF permission = "granted" THEN "true"
    ELSE IF permission # "denied" THEN "prompt"
    ELSE "false"

\* handleSaveEvent after the store has been written: lines 226-242
AfterSave(savedEvent) ==
    IF HasReminder(savedEvent)
    THEN IF RequestNotificationPermission(notificationPermission) = "true"
         THEN /\ InRange(ScheduleNotification(Sched, savedEvent,
                                              notificationPermission, now))
              /\ SetSched(ScheduleNotification(Sched, savedEvent,
                                               notificationPermission, now))
              /\ lastCall' = Call("schedule", savedEvent.id, <<savedEvent>>)
              /\ UNCHANGED <<pendingPermission, blockedToasts>>
         ELSE IF RequestNotificationPermission(notificationPermission) = "false"
         \* the "Notifications Blocked" toast of line 236
         THEN /\ blockedToasts < MaxToasts
              /\ blockedToasts' = blockedToasts + 1
              /\ lastCall' = Call("refused", savedEvent.id, <<savedEvent>>)
              /\ UNCHANGED <<pendingPermission, scheduledNotifications, timers,
                             nextTimeoutId, cleared>>
         \* Notification.requestPermission() prompts; the handler is suspended
         ELSE /\ Len(pendingPermission) < MaxPending
              /\ pendingPermission' = Append(pendingPermission, savedEvent)
              /\ lastCall' = Call("await", savedEvent.id, <<savedEvent>>)
              /\ UNCHANGED <<scheduledNotifications, timers, nextTimeoutId, cleared,
                             blockedToasts>>
    ELSE /\ SetSched(CancelNotification(Sched, savedEvent.id))
         /\ lastCall' = Call("cancel", savedEvent.id, <<savedEvent>>)
         /\ UNCHANGED <<pendingPermission, blockedToasts>>

\* handleSaveEvent for an id the page does not hold: addEvent
HandleSaveNewEvent ==
    \E id \in {Cardinality(usedIds) + 1} \cap (1..MaxEvents) :
      \E eventData \in FormEvents(id) :
        \* format(new Date(eventData.date + 'T00:00:00'), "yyyy-MM-dd") gives
        \* back the date of a form event, which is a real calendar day
        /\ ValidDate(eventData.date)
        /\ storedEvents' = AddEvent(storedEvents, eventData, id)
        /\ usedIds' = usedIds \cup {id}
        /\ AfterSave(eventData)
        /\ UNCHANGED <<notificationPermission, browserPermission, now, notifications,
                       storedTodos, lastStore, lastView>>

\* handleSaveEvent for an id the page holds: updateEvent
HandleSaveEditedEvent ==
    \E id \in StoredIds : \E eventData \in FormEvents(id) :
        /\ storedEvents' = UpdateEvent(storedEvents, eventData)
        /\ AfterSave(eventData)
        /\ UNCHANGED <<usedIds, notificationPermission, browserPermission, now,
                       notifications, storedTodos, lastStore, lastView>>

\* handleDeleteEvent
HandleDeleteEvent ==
    \E id \in StoredIds :
        /\ storedEvents' = DeleteEvent(storedEvents, id)
        /\ SetSched(CancelNotification(Sched, id))
        /\ lastCall' = Call("delete", id, <<>>)
        /\ UNCHANGED <<usedIds, notificationPermission, browserPermission,
                       pendingPermission, now, notifications, blockedToasts,
                       storedTodos, lastStore, lastView>>

\* the user answers (or dismisses) the prompt: the oldest suspended save resumes
\* at line 47 and runs to the end of the handler
PermissionResolved ==
    /\ pendingPermission # <<>>
    /\ \E permission \in {"default", "granted", "denied"} :
        /\ browserPermission = "default" \/ permission = browserPermission
        /\ browserPermission' = permission
        /\ permission = "granted"
           => InRange(ScheduleNotification(Sched, Head(pendingPermission),
                                           permission, now))
        /\ notificationPermission' = permission
        /\ SetSched(IF permission = "granted"
                    THEN ScheduleNotification(Sched, Head(pendingPermission),
                                              permission, now)
                    ELSE Sched)
        /\ lastCall' = Call(IF permission = "granted" THEN "resume" ELSE "refused",
                            Head(pendingPermission).id, <<Head(pendingPermission)>>)
        \* the "Notifications Blocked" toast of line 236
        /\ permission = "denied" => blockedToasts < MaxToasts
        /\ blockedToasts' = IF permission = "denied" THEN blockedToasts + 1
                            ELSE blockedToasts
    /\ pendingPermission' = Tail(pendingPermission)
    /\ UNCHANGED <<storedEvents, usedIds, now, notifications, storedTodos, lastStore, lastView>>

\* the load effect (lines 128-147), which runs again whenever the page remounts
LoadEffect ==
    /\ InRange(ScheduleAll(Sched, storedEvents, notificationPermission, now))
    /\ SetSched(ScheduleAll(Sched, storedEvents, notificationPermission, now))
    /\ lastCall' = Call("rescheduleAll", 0, <<>>)
    /\ UNCHANGED <<storedEvents, usedIds, notificationPermission, browserPermission,
                   pendingPermission, now, notifications, blockedToasts,
                   storedTodos, lastStore, lastView>>

\* the callback of an armed timer (lines 89-95), run once its delay has passed
TimerFire ==
    \E t \in timers :
        /\ now >= t.at
        /\ notifications' = Append(notifications,
               [tag |-> t.event.id, handle |-> t.handle])
        /\ timers' = timers \ {t}
        /\ scheduledNotifications' = Remove(scheduledNotifications, t.event.id)
        /\ lastCall' = Call("fire", t.event.id, <<t.event>>)
        /\ UNCHANGED <<storedEvents, usedIds, notificationPermission,
                       browserPermission, pendingPermission, nextTimeoutId, now,
                       cleared, blockedToasts, storedTodos, lastStore, lastView>>

\* the clock advances
Tick ==
    /\ \E t \in ClockPoints : t > now /\ now' = t
    /\ lastCall' = Call("tick", 0, <<>>)
    /\ UNCHANGED <<storedEvents, usedIds, notificationPermission, browserPermission,
                   pendingPermission, scheduledNotifications, timers, nextTimeoutId,
                   notifications, cleared, blockedToasts, storedTodos, lastStore, lastView>>

Next ==
    \/ HandleSaveNewEvent
    \/ HandleSaveEditedEvent
    \/ HandleDeleteEvent
    \/ PermissionResolved
    \/ LoadEffect
    \/ TimerFire
    \/ Tick

Spec == Init /\ [][Next]_vars

----------------------------------------------------------------------------
(* The scheduler driven directly: any caller, any event, any order *)

Schedule ==
    \E id \in 1..MaxEvents : \E event \in AnyEvents(id) :
        /\ nextTimeoutId <= MaxTimeouts
        /\ SetSched(ScheduleNotification(Sched, event, notificationPermission, now))
        /\ lastCall' = Call("schedule", id, <<event>>)
        /\ UNCHANGED <<storedEvents, usedIds, notificationPermission,
                       browserPermission, pendingPermission, now, notifications,
                       blockedToasts, storedTodos, lastStore, lastView>>

Cancel ==
    \E id \in 1..MaxEvents :
        /\ SetSched(CancelNotification(Sched, id))
        /\ lastCall' = Call("cancel", id, <<>>)
        /\ UNCHANGED <<storedEvents, usedIds, notificationPermission,
                       browserPermission, pendingPermission, now, notifications,
                       blockedToasts, storedTodos, lastStore, lastView>>

\* every list of events with distinct ids, in the order of their ids
RECURSIVE EventLists(_)
EventLists(n) ==
    IF n = 0 THEN {<<>>}
    ELSE EventLists(n - 1) \cup
         {Append(l, e) : l \in EventLists(n - 1), e \in AnyEvents(n)}

RescheduleAll ==
    \E events \in EventLists(MaxEvents) :
        /\ nextTimeoutId + Len(events) <= MaxTimeouts + 1
        /\ SetSched(ScheduleAll(Sched, events, notificationPermission, now))
        /\ lastCall' = Call("rescheduleAll", 0, <<>>)
        /\ UNCHANGED <<storedEvents, usedIds, notificationPermission,
                       browserPermission, pendingPermission, now, notifications,
                       blockedToasts, storedTodos, lastStore, lastView>>

SchedNext ==
    \/ Schedule
    \/ Cancel
    \/ RescheduleAll
    \/ TimerFire
    \/ Tick

SchedSpec == Init /\ [][SchedNext]_vars

\* the page opened with notifications already allowed: no save ever waits
GrantedInit == Init /\ notificationPermission = "granted"

GrantedNext ==
    \/ HandleSaveNewEvent
    \/ HandleSaveEditedEvent
    \/ HandleDeleteEvent
    \/ LoadEffect
    \/ TimerFire
    \/ Tick

GrantedSpec == GrantedInit /\ [][GrantedNext]_vars

\* events with a reminder whose date is not a date, or whose startTime is not
\* a time, in every JavaScript engine and for date-fns alike (a day past the
\* end of its month is left out: engines disagree on new Date() of it)
UnparsableEvents(id) ==
    {Event(id, <<2024, 13, 1>>, <<15, 0>>, FALSE, <<15>>),
     Event(id, <<2024, 6, 1>>, <<25, 0>>, FALSE, <<15>>)}

\* format(new Date(date + 'T00:00:00'), "yyyy-MM-dd") of line 208: <<date>>,
\* or <<>> when new Date() gives the Invalid Date and format throws
FormatDate(date) == IF ValidDate(date) THEN <<date>> ELSE <<>>

\* handleSaveEvent called with such an event under an id the page does not
\* hold: when format throws, addEvent is never called and the catch of lines
\* 244-250 shows "Error Saving Event"
HandleSaveNewUnparsable ==
    \E id \in {Cardinality(usedIds) + 1} \cap (1..MaxEvents) :
      \E eventData \in UnparsableEvents(id) :
        IF FormatDate(eventData.date) = <<>>
        THEN /\ lastCall' = Call("saveFailed", id, <<eventData>>)
             /\ UNCHANGED <<storedEvents, usedIds, notificationPermission,
                            browserPermission, pendingPermission,
                            scheduledNotifications, timers, nextTimeoutId, now,
                            notifications, cleared, blockedToasts, storedTodos,
                            lastStore, lastView>>
        ELSE /\ storedEvents' = AddEvent(storedEvents, eventData, id)
             /\ usedIds' = usedIds \cup {id}
             /\ AfterSave(eventData)
             /\ UNCHANGED <<notificationPermission, browserPermission, now,
                            notifications, storedTodos, lastStore, lastView>>

\* handleSaveEvent called with such an event under an id the page holds:
\* updateEvent stores it as it is
HandleSaveEditedUnparsable ==
    \E id \in StoredIds : \E eventData \in UnparsableEvents(id) :
        /\ storedEvents' = UpdateEvent(storedEvents, eventData)
        /\ AfterSave(eventData)
        /\ UNCHANGED <<usedIds, notificationPermission, browserPermission, now,
                       notifications, storedTodos, lastStore, lastView>>

AnySaveNext ==
    \/ HandleSaveNewEvent
    \/ HandleSaveEditedEvent
    \/ HandleSaveNewUnparsable
    \/ HandleSaveEditedUnparsable
    \/ HandleDeleteEvent
    \/ PermissionResolved

\* handleSaveEvent called with any event, parsable or not
AnySaveSpec == Init /\ [][AnySaveNext]_vars

\* the saves and the permission prompt alone, from a permission the user has
\* not decided yet; the clock stands still
PromptInit == Init /\ browserPermission = "default"

PromptNext ==
    \/ HandleSaveNewEvent
    \/ HandleSaveEditedEvent
    \/ PermissionResolved

PromptSpec == PromptInit /\ [][PromptNext]_vars

\* the page opened on a store an earlier session wrote: nothing is armed yet,
\* the load effect reschedules, timers run and the clock moves on
LoadInit ==
    /\ storedEvents \in EventLists(MaxEvents)
    /\ usedIds = {storedEvents[i].id : i \in DOMAIN storedEvents}
    /\ browserPermission \in {"default", "granted", "denied"}
    /\ notificationPermission = browserPermission
    /\ pendingPermission = <<>>
    /\ scheduledNotifications = <<>>
    /\ timers = {}
    /\ nextTimeoutId = 1
    /\ now = StartClock
    /\ notifications = <<>>
    /\ cleared = {}
    /\ lastCall = [op |-> "init", id |-> 0, ev |-> <<>>, old |-> {}]
    /\ blockedToasts = 0
    /\ storedTodos = <<>>
    /\ lastStore = NoStoreCall
    /\ lastView = NoView

LoadNext ==
    \/ LoadEffect
    \/ TimerFire
    \/ Tick

LoadSpec == LoadInit /\ [][LoadNext]_vars

\* the scheduler driven directly, with the event loop running every due timer
\* and the clock moving on
FairSchedSpec == SchedSpec /\ WF_vars(Tick) /\ WF_vars(TimerFire)

----------------------------------------------------------------------------
(* The two stores over their medium (events.ts; the todo functions are in  *)
(* types.ts).  A read or a write of localStorage may throw; readOk and     *)
(* writeOk say whether the medium lets the call read and write.            *)

\* safelyGetEvents / safelyGetTodos: a read that throws is logged and gives []
SafelyGet(medium, readOk) == IF readOk THEN medium ELSE <<>>

\* safelySetEvents / safelySetTodos: a write that throws is logged and the
\* medium keeps what it held
SafelySet(medium, updated, writeOk) == IF writeOk THEN updated ELSE medium

HasId(list, id) == \E i \in DOMAIN list : list[i].id = id

\* what a store call leaves and returns: ret is <<r>> for an entity and <<>>
\* for null, ok the boolean of delete (TRUE also when an entity is returned)
Outcome(medium, ret, ok, writeFailed) ==
    [medium |-> medium, ret |-> ret, ok |-> ok, writeFailed |-> writeFailed]

\* (variant) an update of an unknown id appends the record
StoreUpsertEvent(medium, updatedEvent, readOk, writeOk) ==
    IF ~HasId(SafelyGet(medium, readOk), updatedEvent.id)
    THEN Outcome(SafelySet(medium, Append(SafelyGet(medium, readOk), updatedEvent),
                           writeOk),
                 <<updatedEvent>>, TRUE, ~writeOk)
    ELSE Outcome(SafelySet(medium, UpdateEvent(SafelyGet(medium, readOk),
                                               updatedEvent), writeOk),
                 <<updatedEvent>>, TRUE, ~writeOk)

\* addEvent(newEvent), with the id crypto.randomUUID() hands out
StoreAddEvent(medium, newEvent, id, readOk, writeOk) ==
    Outcome(SafelySet(medium, AddEvent(SafelyGet(medium, readOk), newEvent, id),
                      writeOk),
            <<[newEvent EXCEPT !.id = id]>>, TRUE, ~writeOk)

\* updateEvent(updatedEvent)
StoreUpdateEvent(medium, updatedEvent, readOk, writeOk) ==
    IF ~HasId(SafelyGet(medium, readOk), updatedEvent.id)
    THEN Outcome(medium, <<>>, FALSE, FALSE)
    ELSE Outcome(SafelySet(medium, UpdateEvent(SafelyGet(medium, readOk),
                                               updatedEvent), writeOk),
                 <<updatedEvent>>, TRUE, ~writeOk)

\* deleteEvent(eventId)
StoreDeleteEvent(medium, eventId, readOk, writeOk) ==
    IF Len(DeleteEvent(SafelyGet(medium, readOk), eventId))
       = Len(SafelyGet(medium, readOk))
    THEN Outcome(medium, <<>>, FALSE, FALSE)
    ELSE Outcome(SafelySet(medium, DeleteEvent(SafelyGet(medium, readOk), eventId),
                           writeOk),
                 <<>>, TRUE, ~writeOk)

\* TodoItem; what a caller can pass as a todo
Todo(id, title, completed) ==
    [id |-> id, title |-> title, date |-> <<2024, 6, 1>>, completed |-> completed]

TodoItems(id) == {Todo(id, title, completed) : title \in {"a", "b"},
                                               completed \in BOOLEAN}

\* addTodo: append the todo under a fresh id, not completed
AddTodo(todos, newTodo, id) ==
    Append(todos, [newTodo EXCEPT !.id = id, !.completed = FALSE])

\* updateTodo: replace the record at the index of the id
UpdateTodo(todos, updatedTodo) ==
    [i \in DOMAIN todos |->
        IF i = (CHOOSE j \in DOMAIN todos : todos[j].id = updatedTodo.id)
        THEN updatedTodo ELSE todos[i]]

\* deleteTodo: todos.filter(todo => todo.id !== todoId)
DeleteTodo(todos, todoId) == SelectSeq(todos, LAMBDA t : t.id # todoId)

StoreAddTodo(medium, newTodo, id, readOk, writeOk) ==
    Outcome(SafelySet(medium, AddTodo(SafelyGet(medium, readOk), newTodo, id),
                      writeOk),
            <<[newTodo EXCEPT !.id = id, !.completed = FALSE]>>, TRUE, ~writeOk)

StoreUpdateTodo(medium, updatedTodo, readOk, writeOk) ==
    IF ~HasId(SafelyGet(medium, readOk), updatedTodo.id)
    THEN Outcome(medium, <<>>, FALSE, FALSE)
    ELSE Outcome(SafelySet(medium, UpdateTodo(SafelyGet(medium, readOk),
                                              updatedTodo), writeOk),
                 <<updatedTodo>>, TRUE, ~writeOk)

StoreDeleteTodo(medium, todoId, readOk, writeOk) ==
    IF Len(DeleteTodo(SafelyGet(medium, readOk), todoId))
       = Len(SafelyGet(medium, readOk))
    THEN Outcome(medium, <<>>, FALSE, FALSE)
    ELSE Outcome(SafelySet(medium, DeleteTodo(SafelyGet(medium, readOk), todoId),
                           writeOk),
                 <<>>, TRUE, ~writeOk)

\* a store call leaves the page and the scheduler alone
PageUnchanged ==
    UNCHANGED <<notificationPermission, browserPermission, pendingPermission,
                scheduledNotifications, timers, nextTimeoutId, now, notifications,
                cleared, lastCall, blockedToasts, lastView>>

\* the call's outcome r on the event medium, recorded
EventCallDone(op, id, r, readOk) ==
    /\ storedEvents' = r.medium
    /\ lastStore' = StoreCall(op, "events", id, r.ret, r.ok, storedEvents,
                              readOk, ~r.writeFailed)
    /\ UNCHANGED storedTodos
    /\ PageUnchanged

TodoCallDone(op, id, r, readOk) ==
    /\ storedTodos' = r.medium
    /\ lastStore' = StoreCall(op, "todos", id, r.ret, r.ok, storedTodos,
                              readOk, ~r.writeFailed)
    /\ UNCHANGED storedEvents
    /\ PageUnchanged

\* the input of an add may carry any id (the form gives a new event one,
\* event-form.tsx line 166); the store assigns its own
CallAddEvent ==
    \E id \in {Cardinality(usedIds) + 1} \cap (1..MaxEvents) :
      \E carried \in 1..MaxEvents :
      \E newEvent \in FormEvents(carried), readOk \in BOOLEAN, writeOk \in BOOLEAN :
        /\ usedIds' = usedIds \cup {id}
        /\ EventCallDone("add", id,
               StoreAddEvent(storedEvents, newEvent, id, readOk, writeOk), readOk)

CallUpdateEvent ==
    \E id \in 1..MaxEvents :
      \E updatedEvent \in FormEvents(id), readOk \in BOOLEAN, writeOk \in BOOLEAN :
        /\ EventCallDone("update", id,
               StoreUpdateEvent(storedEvents, updatedEvent, readOk, writeOk), readOk)
        /\ UNCHANGED usedIds

CallDeleteEvent ==
    \E id \in 1..MaxEvents, readOk \in BOOLEAN, writeOk \in BOOLEAN :
        /\ EventCallDone("delete", id,
               StoreDeleteEvent(storedEvents, id, readOk, writeOk), readOk)
        /\ UNCHANGED usedIds

CallAddTodo ==
    \E id \in {Cardinality(usedIds) + 1} \cap (1..MaxEvents) :
      \E carried \in 1..MaxEvents :
      \E newTodo \in TodoItems(carried), readOk \in BOOLEAN, writeOk \in BOOLEAN :
        /\ usedIds' = usedIds \cup {id}
        /\ TodoCallDone("add", id,
               StoreAddTodo(storedTodos, newTodo, id, readOk, writeOk), readOk)

CallUpdateTodo ==
    \E id \in 1..MaxEvents :
      \E updatedTodo \in TodoItems(id), readOk \in BOOLEAN, writeOk \in BOOLEAN :
        /\ TodoCallDone("update", id,
               StoreUpdateTodo(storedTodos, updatedTodo, readOk, writeOk), readOk)
        /\ UNCHANGED usedIds

CallDeleteTodo ==
    \E id \in 1..MaxEvents, readOk \in BOOLEAN, writeOk \in BOOLEAN :
        /\ TodoCallDone("delete", id,
               StoreDeleteTodo(storedTodos, id, readOk, writeOk), readOk)
        /\ UNCHANGED usedIds

\* toggleTodoCompletion: the record at the index of the id, with completed
\* negated
ToggledTodo(todos, todoId) ==
    [todos[CHOOSE j \in DOMAIN todos : todos[j].id = todoId]
        EXCEPT !.completed = ~@]

ToggleTodo(todos, todoId) ==
    [i \in DOMAIN todos |->
        IF i = (CHOOSE j \in DOMAIN todos : todos[j].id = todoId)
        THEN ToggledTodo(todos, todoId) ELSE todos[i]]

\* (variant) the toggle always marks the todo completed
StoreCompleteTodo(medium, todoId, readOk, writeOk) ==
    IF ~HasId(SafelyGet(medium, readOk), todoId)
    THEN Outcome(medium, <<>>, FALSE, FALSE)
    ELSE Outcome(SafelySet(medium,
                           UpdateTodo(SafelyGet(medium, readOk),
                               [ToggledTodo(SafelyGet(medium, readOk), todoId)
                                   EXCEPT !.completed = TRUE]),
                           writeOk),
                 <<[ToggledTodo(SafelyGet(medium, readOk), todoId)
                       EXCEPT !.completed = TRUE]>>, TRUE, ~writeOk)

StoreToggleTodo(medium, todoId, readOk, writeOk) ==
    IF ~HasId(SafelyGet(medium, readOk), todoId)
    THEN Outcome(medium, <<>>, FALSE, FALSE)
    ELSE Outcome(SafelySet(medium, ToggleTodo(SafelyGet(medium, readOk), todoId),
                           writeOk),
                 <<ToggledTodo(SafelyGet(medium, readOk), todoId)>>, TRUE, ~writeOk)

CallToggleTodo ==
    \E id \in 1..MaxEvents, readOk \in BOOLEAN, writeOk \in BOOLEAN :
        /\ TodoCallDone("toggle", id,
               StoreToggleTodo(storedTodos, id, readOk, writeOk), readOk)
        /\ UNCHANGED usedIds

StoreInit == Init /\ browserPermission = "default"

StoreNext ==
    \/ CallAddEvent
    \/ CallUpdateEvent
    \/ CallDeleteEvent
    \/ CallAddTodo
    \/ CallUpdateTodo
    \/ CallDeleteTodo
    \/ CallToggleTodo

\* the store functions called in any order, on a medium that may fail
StoreSpec == StoreInit /\ [][StoreNext]_vars

----------------------------------------------------------------------------
(* Properties *)

\* the last operation was a call scheduleNotification(event)
ScheduleCalled == lastCall.op \in {"schedule", "resume"}

CalledEvent == lastCall.ev[1]

\* the called event passes the guards of lines 61-74 and has this trigger
Parses(event) == HasReminder(event) /\ Parse(event.date, event.startTime) # <<>>

\* C1: with permission granted throughout, every registry entry belongs to
\* a stored event that has a reminder, and its timer is armed for that stored
\* event's start minus its reminderMinutes
RegistryMatchesStore ==
    \A id \in DOMAIN scheduledNotifications :
        /\ id \in StoredIds
        /\ Parses(StoredEvent(id))
        /\ \E t \in timers :
              /\ t.handle = scheduledNotifications[id]
              /\ t.at = NotificationTime(StoredEvent(id))

\* C2: when a save resumes after the permission prompt and its event has
\* meanwhile been deleted or saved without a reminder, no timer is armed for
\* the id
ResumedSaveRespectsLaterCalls ==
    (lastCall.op = "resume"
       /\ (lastCall.id \notin StoredIds \/ ~HasReminder(StoredEvent(lastCall.id))))
    => (lastCall.id \notin DOMAIN scheduledNotifications /\ TimersOf(lastCall.id) = {})

\* C3: every armed timer is the one the registry stores for its event id, so
\* an id has at most one armed timer and an id without an entry has none
OneTimerPerId ==
    /\ \A t \in timers :
          /\ t.event.id \in DOMAIN scheduledNotifications
          /\ scheduledNotifications[t.event.id] = t.handle
    /\ \A id \in 1..MaxEvents : Cardinality(TimersOf(id)) <= 1

OneTimerPerIdWitness ==
    /\ lastCall.op = "rescheduleAll"
    /\ timers # {}
    /\ cleared # {}

\* C4: after scheduleNotification(event) for an event whose trigger instant
\* is <= now, the registry has no entry and no timer is armed for its id
PastScheduleLeavesNothing ==
    (ScheduleCalled /\ Parses(CalledEvent) /\ NotificationTime(CalledEvent) <= now)
    => (lastCall.id \notin DOMAIN scheduledNotifications /\ TimersOf(lastCall.id) = {})

\* C5: after the load effect has called scheduleNotification for every stored
\* event, a stored event that is all-day or lacks reminderMinutes or startTime
\* has no registry entry and no armed timer
IneligibleScheduleCancels ==
    lastCall.op = "rescheduleAll"
    => \A i \in DOMAIN storedEvents :
          ~HasReminder(storedEvents[i])
          => /\ storedEvents[i].id \notin DOMAIN scheduledNotifications
             /\ TimersOf(storedEvents[i].id) = {}

\* every notification came from a timer that was never stopped, and no timer
\* produced two
FiredOnceNeverCleared ==
    /\ \A i \in DOMAIN notifications : notifications[i].handle \notin cleared
    /\ \A i, j \in DOMAIN notifications :
          notifications[i].handle = notifications[j].handle => i = j

\* the one timer of the called event's id, armed by this call for this trigger
ArmedByCall ==
    \E t \in timers :
        /\ TimersOf(lastCall.id) = {t}
        /\ t \notin lastCall.old
        /\ t.event = CalledEvent
        /\ t.at = NotificationTime(CalledEvent)
        /\ scheduledNotifications[lastCall.id] = t.handle

DelaysPositive == \A t \in timers : t.delay > 0

\* C7: no timer is armed with a delay that is not positive, and a call of
\* scheduleNotification for an event whose trigger is <= now arms no timer
NeverArmsPast ==
    /\ []DelaysPositive
    /\ [][(ScheduleCalled' /\ Parses(CalledEvent') /\ NotificationTime(CalledEvent') <= now')
          => (timers' \subseteq timers /\ nextTimeoutId' = nextTimeoutId)]_vars

NeverArmsPastWitness ==
    /\ ScheduleCalled
    /\ Parses(CalledEvent)
    /\ notificationPermission = "granted"
    /\ NotificationTime(CalledEvent) = now
    /\ timers # {}

\* C8, the part every state shows: the timer armed for a future trigger has a
\* delay of exactly trigger minus now; a fired timer has shown a notification
\* tagged with the event id and has left the registry without an entry
ArmedWithExactDelay ==
    /\ (ScheduleCalled /\ Parses(CalledEvent)
          /\ notificationPermission = "granted"
          /\ NotificationTime(CalledEvent) > now)
       => /\ ArmedByCall
          /\ \A t \in TimersOf(lastCall.id) :
                t.delay = (NotificationTime(CalledEvent) - now) * 60000
    /\ lastCall.op = "fire"
       => /\ notifications[Len(notifications)].tag = lastCall.id
          /\ lastCall.id \notin DOMAIN scheduledNotifications
    /\ FiredOnceNeverCleared

Armed(h) == \E t \in timers : t.handle = h

Fired(h) == \E i \in DOMAIN notifications : notifications[i].handle = h

\* C8: an eligible event with a future trigger gets one timer with delay
\* trigger minus now; unless it is cancelled the timer fires, once, showing a
\* notification tagged with the event id, and the registry entry is removed
ArmedTimerFiresOnce ==
    /\ []ArmedWithExactDelay
    /\ \A h \in 1..MaxTimeouts : Armed(h) ~> (Fired(h) \/ h \in cleared)

\* 2024-06-01 14:00 with a 15-minute reminder, scheduled at 13:00: 45 minutes
ArmedTimerFiresOnceWitness ==
    /\ lastCall.op = "schedule"
    /\ CalledEvent = Event(lastCall.id, <<2024, 6, 1>>, <<14, 0>>, FALSE, <<15>>)
    /\ now = Parse(<<2024, 6, 1>>, <<13, 0>>)[1]
    /\ \E t \in timers : t.event = CalledEvent /\ t.delay = 45 * 60000

\* C9: once cancelNotification(id) has returned, no timer is armed for the
\* id, and a stopped timer never shows a notification
CancelStopsTimer ==
    /\ lastCall.op \in {"cancel", "delete"}
       => (TimersOf(lastCall.id) = {} /\ lastCall.old \cap timers = {})
    /\ \A i \in DOMAIN notifications : notifications[i].handle \notin cleared
    /\ \A t \in timers : t.handle \notin cleared

CancelStopsTimerWitness ==
    /\ lastCall.op = "cancel"
    /\ lastCall.old # {}
    /\ \E t \in lastCall.old : now >= t.at

\* C10: cancelNotification(id) for an id without a pending timer changes
\* neither the registry nor any timer
CancelWithoutTimerChangesNothing ==
    [][(lastCall'.op = "cancel" /\ lastCall'.old = {})
       => /\ scheduledNotifications' = scheduledNotifications
          /\ timers' = timers
          /\ cleared' = cleared]_vars

CancelWithoutTimerWitness ==
    /\ lastCall.op = "cancel"
    /\ lastCall.old = {}
    /\ timers # {}
    /\ \E i \in DOMAIN notifications : notifications[i].tag = lastCall.id

----------------------------------------------------------------------------
(* The load effect on a stored collection *)

\* the event has a reminder the scheduler can arm at this clock: not all-day,
\* with a startTime and reminderMinutes, a date and time that parse, and a
\* trigger instant strictly after now
Schedulable(event, clock) ==
    /\ ~event.allDay
    /\ event.startTime # <<>>
    /\ event.reminderMinutes # <<>>
    /\ Parse(event.date, event.startTime) # <<>>
    /\ NotificationTime(event) > clock

SchedulableIds(events, clock) ==
    {events[i].id : i \in {j \in DOMAIN events : Schedulable(events[j], clock)}}

\* the registry holds, for exactly these ids, the one timer armed for the
\* stored event at its trigger instant
RegistryIsExactly(ids, reg, armed, events) ==
    /\ DOMAIN reg = ids
    /\ \A t \in armed : t.event.id \in ids /\ reg[t.event.id] = t.handle
    /\ \A i \in DOMAIN events :
          events[i].id \in ids
          => \E t \in armed : /\ t.event = events[i]
                              /\ t.handle = reg[events[i].id]
                              /\ t.at = NotificationTime(events[i])

\* C11: when the load effect reschedules on an empty registry with
\* permission granted, the registry afterwards holds exactly the stored
\* events that are schedulable at that instant, each with its timer, and no
\* other event has a timer
RescheduleAllOnEmptyRegistry ==
    [][(/\ lastCall'.op = "rescheduleAll"
        /\ scheduledNotifications = <<>>
        /\ timers = {}
        /\ notificationPermission = "granted")
       => RegistryIsExactly(SchedulableIds(storedEvents, now),
                            scheduledNotifications', timers', storedEvents)]_vars

\* the first load armed some stored events and left another one out
RescheduleAllOnEmptyRegistryWitness ==
    /\ lastCall.op = "rescheduleAll"
    /\ notificationPermission = "granted"
    /\ cleared = {}
    /\ notifications = <<>>
    /\ timers # {}
    /\ nextTimeoutId = Cardinality(timers) + 1
    /\ Len(storedEvents) > Cardinality(timers)

\* an event with a reminder whose date and time do not parse
Malformed(event) ==
    HasReminder(event) /\ Parse(event.date, event.startTime) = <<>>

\* C16: when the load effect reschedules a list that holds a malformed event,
\* every schedulable event of the list has its timer, whatever its position
MalformedEventIsIsolated ==
    (/\ lastCall.op = "rescheduleAll"
     /\ notificationPermission = "granted"
     /\ \E i \in DOMAIN storedEvents : Malformed(storedEvents[i]))
    => \A i \in DOMAIN storedEvents :
          Schedulable(storedEvents[i], now)
          => \E t \in timers :
                /\ t.event = storedEvents[i]
                /\ t.at = NotificationTime(storedEvents[i])
                /\ scheduledNotifications[storedEvents[i].id] = t.handle

\* the malformed event came first in the list and the one after it is armed
MalformedEventIsIsolatedWitness ==
    /\ lastCall.op = "rescheduleAll"
    /\ notificationPermission = "granted"
    /\ Len(storedEvents) = 2
    /\ Malformed(storedEvents[1])
    /\ Schedulable(storedEvents[2], now)
    /\ storedEvents[2].id \in DOMAIN scheduledNotifications

----------------------------------------------------------------------------
(* Notification permission *)

\* the step is a call of handleSaveEvent that saved a reminder-bearing event
\* and so called requestNotificationPermission (a resumed save shortens the
\* queue of suspended saves instead)
SaveAskedPermission ==
    /\ lastCall'.op \in {"schedule", "refused", "await"}
    /\ Len(pendingPermission') >= Len(pendingPermission)

\* the step issued a prompt: a save is now suspended in requestPermission
Prompted == Len(pendingPermission') > Len(pendingPermission)

\* C12: a prompt is issued only in a permission state that is neither granted
\* nor denied; in the granted state the call answers true and the save goes
\* on to schedule without a prompt; in the denied state it answers false
\* without a prompt; and the denied state, once reached, is never left, so no
\* later call prompts
PromptsOnlyWhenUndecided ==
    [][/\ Prompted => notificationPermission \notin {"granted", "denied"}
       /\ (notificationPermission = "granted" /\ SaveAskedPermission)
          => (lastCall'.op = "schedule" /\ ~Prompted)
       /\ (notificationPermission = "denied" /\ SaveAskedPermission)
          => (lastCall'.op = "refused" /\ ~Prompted)
       /\ notificationPermission = "denied"
          => (notificationPermission' = "denied" /\ ~Prompted)]_vars

\* a prompt was answered with denied, and a later save was refused without
\* a prompt
PromptsOnlyWhenUndecidedWitness ==
    /\ notificationPermission = "denied"
    /\ lastCall.op = "refused"
    /\ pendingPermission = <<>>
    /\ blockedToasts = 2

\* C13: while notification permission is denied, however many
\* reminder-bearing events are saved, the "Notifications Blocked" report is
\* shown to the user at most once
DenialReportedAtMostOnce ==
    notificationPermission = "denied" => blockedToasts <= 1

\* C14: while notification permission is not granted, no timer is armed, the
\* registry gets no entry, no setTimeout handle is used and no notification
\* is shown, whatever schedule and rescheduleAll are called with
NoTimerWithoutPermission ==
    notificationPermission # "granted"
    => /\ timers = {}
       /\ scheduledNotifications = <<>>
       /\ nextTimeoutId = 1
       /\ notifications = <<>>

\* schedule was called without permission for an event that is otherwise
\* schedulable, at a clock that has moved on
NoTimerWithoutPermissionWitness ==
    /\ notificationPermission # "granted"
    /\ lastCall.op = "schedule"
    /\ Schedulable(CalledEvent, now)
    /\ now > StartClock

----------------------------------------------------------------------------
(* Saving an event that cannot be scheduled *)

----------------------------------------------------------------------------
(* The store contract *)

\* list() of the collection the last store call worked on
Listed == IF lastStore.coll = "events" THEN storedEvents ELSE storedTodos

Occurrences(list, r) == Cardinality({i \in DOMAIN list : list[i] = r})

StoreCalled == lastStore.op \in {"add", "update", "delete"}

\* C17: after add(e) returned the entity r, on either collection, list()
\* holds exactly one entity equal to r and every entity that was stored
\* before the call is still there unchanged
AddRoundTrip ==
    (lastStore.op = "add" /\ lastStore.ret # <<>>)
    => /\ Occurrences(Listed, lastStore.ret[1]) = 1
       /\ \A i \in DOMAIN lastStore.before :
             Occurrences(Listed, lastStore.before[i]) = 1

\* C18: update and delete with an id that is not in the store, on either
\* collection, return null / false and leave list() as it was
UnknownIdIsNotFound ==
    (lastStore.op \in {"update", "delete"}
       /\ ~HasId(lastStore.before, lastStore.id))
    => /\ lastStore.ret = <<>>
       /\ ~lastStore.ok
       /\ Listed = lastStore.before

\* updateEvent was called with an id the non-empty store does not hold
UnknownIdIsNotFoundWitness ==
    /\ lastStore.op = "update"
    /\ lastStore.coll = "events"
    /\ lastStore.before # <<>>
    /\ ~HasId(lastStore.before, lastStore.id)
    /\ lastStore.readOk

\* C19: when the write to the medium failed during add, update or delete,
\* the call returned a failure signal: neither an entity nor true
WriteFailureIsReported ==
    (StoreCalled /\ ~lastStore.writeOk)
    => (lastStore.ret = <<>> /\ ~lastStore.ok)

\* C20: when a read or the write of the medium failed during add, update or
\* delete, no entity that was durable before the call is missing from the
\* medium after it
FailedCallLosesNothing ==
    (StoreCalled /\ (~lastStore.readOk \/ ~lastStore.writeOk))
    => \A i \in DOMAIN lastStore.before :
          Occurrences(Listed, lastStore.before[i]) = 1

----------------------------------------------------------------------------
(* The time grid of the day view and of the week view                      *)
(* (calendar-day-view.tsx, calendar-week-view.tsx).  A pixel length is     *)
(* counted in sixtieths of a pixel, so that (minutes / 60) * hourHeight is *)
(* the whole number minutes * hourHeight; the rounding of the double       *)
(* arithmetic (below 1e-12 pixel) is left out.  A returned span is         *)
(* <<[top, height]>>, null is <<>>.                                        *)

\* n pixels
Px(n) == n * 60

\* Math.max(height, 15)
MinHeightPx == 15

\* const hourHeight: 60 in the two views, 50 in their earlier versions
HourHeights == {50, 60}

\* event.startTime.split(':').map(Number), then hour * 60 + minute
Minutes(time) == time[1] * 60 + time[2]

Max(a, b) == IF a >= b THEN a ELSE b

\* (variants of the day view's getEventPosition)
DayPositionFromHour(event, hourHeight) ==
    IF event.allDay \/ event.startTime = <<>> THEN <<>>
    ELSE LET start == Minutes(event.startTime)
             given == IF event.endTime # <<>> THEN Minutes(event.endTime)
                      ELSE start + 60
             end   == IF given <= start THEN start + 60 ELSE given
         IN  <<[top    |-> event.startTime[1] * 60 * hourHeight,
                height |-> Max((end - start) * hourHeight, Px(MinHeightPx))]>>

DayPositionEqualEndKept(event, hourHeight) ==
    IF event.allDay \/ event.startTime = <<>> THEN <<>>
    ELSE LET start == Minutes(event.startTime)
             given == IF event.endTime # <<>> THEN Minutes(event.endTime)
                      ELSE start + 60
             end   == IF given < start THEN start + 60 ELSE given
         IN  <<[top    |-> start * hourHeight,
                height |-> Max((end - start) * hourHeight, Px(MinHeightPx))]>>

DayPositionNoMinimum(event, hourHeight) ==
    IF event.allDay \/ event.startTime = <<>> THEN <<>>
    ELSE LET start == Minutes(event.startTime)
             given == IF event.endTime # <<>> THEN Minutes(event.endTime)
                      ELSE start + 60
             end   == IF given <= start THEN start + 60 ELSE given
         IN  <<[top    |-> start * hourHeight,
                height |-> (end - start) * hourHeight]>>

DayPositionTwoHours(event, hourHeight) ==
    IF event.allDay \/ event.startTime = <<>> THEN <<>>
    ELSE LET start == Minutes(event.startTime)
             given == IF event.endTime # <<>> THEN Minutes(event.endTime)
                      ELSE start + 120
             end   == IF given <= start THEN start + 120 ELSE given
         IN  <<[top    |-> start * hourHeight,
                height |-> Max((end - start) * hourHeight, Px(MinHeightPx))]>>

\* getEventPosition of the day view (calendar-day-view.tsx lines 20-50)
DayGetEventPosition(event, hourHeight) ==
    IF event.allDay \/ event.startTime = <<>> THEN <<>>
    ELSE LET start == Minutes(event.startTime)
             given == IF event.endTime # <<>> THEN Minutes(event.endTime)
                      ELSE start + 60
             end   == IF given <= start THEN start + 60 ELSE given
         IN  <<[top    |-> start * hourHeight,
                height |-> Max((end - start) * hourHeight, Px(MinHeightPx))]>>

\* (variants of the week view's getEventPosition)
WeekPositionAllDayOnly(event, dayIndex, hourHeight) ==
    IF event.allDay THEN <<>>
    ELSE LET start == IF event.startTime = <<>> THEN 0
                      ELSE Minutes(event.startTime)
             given == IF event.endTime # <<>> THEN Minutes(event.endTime)
                      ELSE start + 60
             end   == IF given <= start THEN start + 60 ELSE given
         IN  <<[top    |-> start * hourHeight,
                height |-> Max((end - start) * hourHeight, Px(MinHeightPx))]>>

WeekPositionShiftedByDay(event, dayIndex, hourHeight) ==
    IF event.allDay \/ event.startTime = <<>> THEN <<>>
    ELSE LET start == Minutes(event.startTime)
             given == IF event.endTime # <<>> THEN Minutes(event.endTime)
                      ELSE start + 60
             end   == IF given <= start THEN start + 60 ELSE given
         IN  <<[top    |-> (start + dayIndex) * hourHeight,
                height |-> Max((end - start) * hourHeight, Px(MinHeightPx))]>>

\* getEventPosition of the week view (calendar-week-view.tsx lines 30-54),
\* called for the column dayIndex
WeekGetEventPosition(event, dayIndex, hourHeight) ==
    IF event.allDay \/ event.startTime = <<>> THEN <<>>
    ELSE LET start == Minutes(event.startTime)
             given == IF event.endTime # <<>> THEN Minutes(event.endTime)
                      ELSE start + 60
             end   == IF given <= start THEN start + 60 ELSE given
         IN  <<[top    |-> start * hourHeight,
                height |-> Max((end - start) * hourHeight, Px(MinHeightPx))]>>

\* the times "HH:mm" the views are given, and an absent time
GridTimes == {<<h, m>> : h \in {0, 9, 10, 22, 23}, m \in {0, 5, 30, 59}}

OptionalGridTimes == GridTimes \cup {<<>>}

GridEvents ==
    [startTime : OptionalGridTimes, endTime : OptionalGridTimes, allDay : BOOLEAN]

\* a view's function leaves the page, the scheduler and the stores alone
ViewUnchangedPage ==
    UNCHANGED <<notificationPermission, browserPermission, pendingPermission,
                scheduledNotifications, timers, nextTimeoutId, now, notifications,
                cleared, lastCall, blockedToasts>>

\* the day view and a column of the week view position the same event; the
\* function keeps no state, so one call from the start covers every call
RenderEvent ==
    /\ lastView = NoView
    /\ \E event \in GridEvents, dayIndex \in 0..6, hourHeight \in HourHeights :
          lastView' = [op |-> "layout", event |-> event, dayIndex |-> dayIndex,
                       hourHeight |-> hourHeight,
                       day |-> DayGetEventPosition(event, hourHeight),
                       week |-> WeekGetEventPosition(event, dayIndex, hourHeight)]
    /\ UNCHANGED <<storedEvents, usedIds, storedTodos, lastStore>>
    /\ ViewUnchangedPage

LayoutInit == Init /\ browserPermission = "default"

\* getEventPosition applied to any event
LayoutSpec == LayoutInit /\ [][RenderEvent]_vars

----------------------------------------------------------------------------
(* The layout contract *)

LaidOut == lastView.op = "layout"

\* the laid-out event is timed: not all-day and with a startTime
Timed == LaidOut /\ ~lastView.event.allDay /\ lastView.event.startTime # <<>>

\* the timed event has an endTime strictly after its startTime
EndsAfterStart ==
    /\ Timed
    /\ lastView.event.endTime # <<>>
    /\ Minutes(lastView.event.endTime) > Minutes(lastView.event.startTime)

NineToHalfPastTen ==
    /\ LaidOut
    /\ lastView.event = [startTime |-> <<9, 0>>, endTime |-> <<10, 30>>,
                         allDay |-> FALSE]
    /\ lastView.hourHeight = 60

\* C21: for a timed event whose endTime is after its startTime the span has
\* top = (startMinutes / 60) * hourHeight and height = the larger of
\* ((endMinutes - startMinutes) / 60) * hourHeight and 15; 09:00 to 10:30 at
\* hourHeight 60 gives top 540 and height 90
SpanIsProportional ==
    /\ EndsAfterStart
       => /\ lastView.day # <<>>
          /\ lastView.day[1].top
                = (lastView.event.startTime[1] * 60 + lastView.event.startTime[2])
                  * lastView.hourHeight
          /\ lastView.day[1].height
                = Max((Minutes(lastView.event.endTime)
                         - Minutes(lastView.event.startTime)) * lastView.hourHeight,
                      Px(15))
    /\ NineToHalfPastTen
       => lastView.day = <<[top |-> Px(540), height |-> Px(90)]>>

SpanIsProportionalWitness == NineToHalfPastTen /\ lastView.day # <<>>

\* C22: a timed event whose endTime is absent, equal to its startTime or
\* earlier gets the span of the same event without endTime, one hour high:
\* 60 pixels at hourHeight 60
MissingOrInvertedEndIsOneHour ==
    (Timed /\ ~EndsAfterStart)
    => /\ lastView.day # <<>>
       /\ lastView.day
            = DayGetEventPosition([lastView.event EXCEPT !.endTime = <<>>],
                                  lastView.hourHeight)
       /\ lastView.day[1].height = 60 * lastView.hourHeight
       /\ lastView.hourHeight = 60 => lastView.day[1].height = Px(60)

\* 10:00 with the inverted endTime 09:30
MissingOrInvertedEndWitness ==
    /\ Timed
    /\ lastView.event.startTime = <<10, 0>>
    /\ lastView.event.endTime = <<9, 30>>
    /\ lastView.hourHeight = 60
    /\ lastView.day # <<>>

\* C23: every span is at least 15 pixels high, and a 5-minute event whose
\* proportional height is below 15 pixels is exactly 15 pixels high
SpanAtLeastMinHeight ==
    (LaidOut /\ lastView.day # <<>>)
    => /\ lastView.day[1].height >= Px(15)
       /\ (/\ EndsAfterStart
           /\ Minutes(lastView.event.endTime)
                - Minutes(lastView.event.startTime) = 5
           /\ 5 * lastView.hourHeight < Px(15))
          => lastView.day[1].height = Px(15)

SpanAtLeastMinHeightWitness ==
    /\ EndsAfterStart
    /\ Minutes(lastView.event.endTime) - Minutes(lastView.event.startTime) = 5
    /\ lastView.day # <<>>
    /\ lastView.hourHeight = 50

\* C24: in the day view and in the week view, no span is returned exactly
\* when the event is all-day or has no startTime
NoSpanIffUntimed ==
    LaidOut
    => /\ lastView.day = <<>>
            <=> (lastView.event.allDay \/ lastView.event.startTime = <<>>)
       /\ lastView.week = <<>>
            <=> (lastView.event.allDay \/ lastView.event.startTime = <<>>)

\* an event that is not all-day, has an endTime and no startTime: no span in
\* either view
NoSpanIffUntimedWitness ==
    /\ LaidOut
    /\ lastView.week = <<>>
    /\ lastView.day = <<>>
    /\ ~lastView.event.allDay
    /\ lastView.event.endTime # <<>>

\* C25: for every event, every column of the week and the same hourHeight,
\* the week view's getEventPosition returns what the day view's returns
DayAndWeekAgree == LaidOut => lastView.week = lastView.day

DayAndWeekAgreeWitness ==
    /\ Timed
    /\ lastView.dayIndex = 6
    /\ lastView.week # <<>>
    /\ lastView.event.startTime[2] # 0

\* C29 as stated: every span lies inside the 24 hours of its day
SpanInsideGrid ==
    (LaidOut /\ lastView.day # <<>>)
    => /\ lastView.day[1].top >= 0
       /\ lastView.day[1].top + lastView.day[1].height
            <= 24 * 60 * lastView.hourHeight

\* C29: every span starts inside the 24 hours of its day, and the span of an
\* event that starts at 23:00 or earlier also ends inside them
SpanStartsInsideGrid ==
    (LaidOut /\ lastView.day # <<>>)
    => /\ lastView.day[1].top >= 0
       /\ lastView.day[1].top < 24 * 60 * lastView.hourHeight
       /\ Minutes(lastView.event.startTime) <= 23 * 60
          => lastView.day[1].top + lastView.day[1].height
               <= 24 * 60 * lastView.hourHeight

\* 23:00 without endTime: the span ends exactly at the end of the day
SpanStartsInsideGridWitness ==
    /\ Timed
    /\ lastView.event.startTime = <<23, 0>>
    /\ lastView.event.endTime = <<>>
    /\ lastView.day # <<>>
    /\ lastView.day[1].top + lastView.day[1].height
         = 24 * 60 * lastView.hourHeight

----------------------------------------------------------------------------
(* The store contract, continued *)

Ids(list) == [i \in DOMAIN list |-> list[i].id]

DistinctIds(list) ==
    \A i \in DOMAIN list : \A j \in DOMAIN list : list[i].id = list[j].id => i = j

\* C26: after update(entity) returned the entity for an id that was in the
\* store, the record of that id is the given entity, the collection has as
\* many entities as before and every other entity is unchanged
UpdateReplacesRecord ==
    (/\ lastStore.op = "update"
     /\ HasId(lastStore.before, lastStore.id)
     /\ lastStore.ret # <<>>)
    => /\ Len(Listed) = Len(lastStore.before)
       /\ \A i \in DOMAIN lastStore.before :
             Listed[i] = IF lastStore.before[i].id = lastStore.id
                         THEN lastStore.ret[1] ELSE lastStore.before[i]

ToggleFlipsOnlyCompleted ==
    /\ (lastStore.op = "add" /\ lastStore.coll = "todos")
       => /\ ~lastStore.ret[1].completed
          /\ \A i \in DOMAIN storedTodos :
                storedTodos[i].id = lastStore.id => ~storedTodos[i].completed
    /\ (lastStore.op = "toggle" /\ HasId(lastStore.before, lastStore.id)
          /\ lastStore.ret # <<>>)
       => /\ Len(storedTodos) = Len(lastStore.before)
          /\ \A i \in DOMAIN lastStore.before :
                storedTodos[i]
                  = IF lastStore.before[i].id = lastStore.id
                    THEN [lastStore.before[i]
                             EXCEPT !.completed = ~lastStore.before[i].completed]
                    ELSE lastStore.before[i]
    /\ (lastStore.op = "toggle" /\ ~HasId(lastStore.before, lastStore.id))
       => (lastStore.ret = <<>> /\ storedTodos = lastStore.before)

----------------------------------------------------------------------------
(* The week query *)

\* Date.getDay() of a local day, counted in days since 1970-01-01, a Thursday
GetDay(day) == (day + 4) % 7

\* the calendar dates around the week of 2024-06-02 .. 2024-06-08
WeekDates == {date \in {<<2024, m, d>> : m \in 5..6, d \in 1..31} : ValidDate(date)}

\* the time zones the page runs in, in minutes east of UTC
ZoneOffsets == {-300, 0, 120}

\* the minute of the local day startDate stands at: midnight (startOfDay, the
\* page's selectedDate), noon, 23:00
StartMinutes == {0, 720, 1380}

\* currentDate.toISOString().split('T')[0]: the calendar date, in UTC, of the
\* instant that is `minute` minutes into local day `day`
ToISODate(day, minute, zone) ==
    CHOOSE date \in WeekDates :
        DaysSinceEpoch(date) = day + ((minute - zone + 1440) \div 1440) - 1

\* events.filter(event => event.date === dateString)
EventsOnDate(events, date) == SelectSeq(events, LAMBDA e : e.date = date)

\* the key (a.startTime || '') is compared by: '' sorts before every "HH:MM"
StartKey(event) == IF event.startTime = <<>> THEN -1 ELSE Minutes(event.startTime)

RECURSIVE InsertByStart(_, _)
InsertByStart(sorted, event) ==
    IF sorted = <<>> THEN <<event>>
    ELSE IF StartKey(sorted[Len(sorted)]) <= StartKey(event)
         THEN Append(sorted, event)
         ELSE Append(InsertByStart(SubSeq(sorted, 1, Len(sorted) - 1), event),
                     sorted[Len(sorted)])

\* Array.prototype.sort with the startTime comparator (stable)
RECURSIVE SortByStart(_)
SortByStart(events) ==
    IF events = <<>> THEN <<>>
    ELSE InsertByStart(SortByStart(SubSeq(events, 1, Len(events) - 1)),
                       events[Len(events)])

\* the loop of lines 84-89 from day i on; setDate keeps the time of day
RECURSIVE WeekEventsFrom(_, _, _, _, _)
WeekEventsFrom(events, weekStart, minute, zone, i) ==
    IF i >= 7 THEN <<>>
    ELSE EventsOnDate(events, ToISODate(weekStart + i, minute, zone))
         \o WeekEventsFrom(events, weekStart, minute, zone, i + 1)

\* getEventsForWeek(startDate), startDate being minute `minute` of local day
\* `day` in a zone `zone` minutes east of UTC
GetEventsForWeek(events, day, minute, zone) ==
    SortByStart(WeekEventsFrom(events, day - GetDay(day), minute, zone, 0))

\* an event of the store the week view reads
WeekStoredEvents(id) ==
    {Event(id, date, startTime, FALSE, <<>>) :
        date \in {<<2024, 6, 1>>, <<2024, 6, 2>>, <<2024, 6, 5>>,
                  <<2024, 6, 8>>, <<2024, 6, 9>>},
        startTime \in {<<>>, <<9, 0>>}}

\* the page shows the week view for a selected day of 2024-06-02 .. 2024-06-08
QueryWeek ==
    /\ lastView = NoView
    /\ \E date \in {<<2024, 6, d>> : d \in 2..8}, minute \in StartMinutes,
          zone \in ZoneOffsets :
          lastView' = [op |-> "week", day |-> DaysSinceEpoch(date),
                       minute |-> minute, zone |-> zone,
                       result |-> GetEventsForWeek(storedEvents,
                                      DaysSinceEpoch(date), minute, zone)]
    /\ UNCHANGED <<storedEvents, usedIds, storedTodos, lastStore>>
    /\ ViewUnchangedPage

\* a store of two events written by an earlier session
WeekInit ==
    /\ storedEvents \in {<<a, b>> : a \in WeekStoredEvents(1), b \in WeekStoredEvents(2)}
    /\ usedIds = {1, 2}
    /\ browserPermission = "default"
    /\ notificationPermission = browserPermission
    /\ pendingPermission = <<>>
    /\ scheduledNotifications = <<>>
    /\ timers = {}
    /\ nextTimeoutId = 1
    /\ now = StartClock
    /\ notifications = <<>>
    /\ cleared = {}
    /\ lastCall = [op |-> "init", id |-> 0, ev |-> <<>>, old |-> {}]
    /\ blockedToasts = 0
    /\ storedTodos = <<>>
    /\ lastStore = NoStoreCall
    /\ lastView = NoView

WeekSpec == WeekInit /\ [][QueryWeek]_vars

\* the stored events of the local week, Sunday through Saturday, that holds
\* local day `day`
InLocalWeek(day) ==
    {e \in {storedEvents[i] : i \in DOMAIN storedEvents} :
        DaysSinceEpoch(e.date) \in (day - GetDay(day))..(day - GetDay(day) + 6)}

\* C28: getEventsForWeek(startDate) returns exactly the stored events dated
\* on one of the seven local days, Sunday through Saturday, of the week that
\* holds startDate, each once, whatever the time zone
WeekIsLocalWeek ==
    lastView.op = "week"
    => /\ {lastView.result[i] : i \in DOMAIN lastView.result}
            = InLocalWeek(lastView.day)
       /\ Len(lastView.result) = Cardinality(InLocalWeek(lastView.day))

====
